---- MODULE Spec2Model ----
(***************************************************************************)
(* Model of micpy/numeric.py: the axis-reordering entry points rollaxis    *)
(* and moveaxis over an N-dimensional array handle, together with the      *)
(* asarray conversion moveaxis falls back to.  Axes are 0-based integers   *)
(* as in the source; TLA+ sequences are 1-based, so At(s, i) reads the     *)
(* Python element s[i].                                                    *)
(***************************************************************************)
EXTENDS Integers, Sequences, FiniteSets

VARIABLES data, heap, nstorage, last, back

vars == <<data, heap, nstorage, last, back>>

(* ------------------------------ bounds -------------------------------- *)

\* largest ndim of the caller's array
MaxNdim == 3
\* longest source / destination sequence the caller passes
MaxLen == 2

\* extents of the caller's array, a prefix of the docstring's (3, 4, 5, 6)
DocShape == <<3, 4, 5, 6, 7, 8>>

(* --------------------------- Python lists ----------------------------- *)

At(s, i) == s[i + 1]

Range(s) == {s[i] : i \in 1..Len(s)}

\* range(0, n) as a list
PyRange(n) == [i \in 1..n |-> i - 1]

\* list.insert(i, x): a negative index counts from the end, and the index
\* is clamped to [0, len]
ListInsert(l, i, x) ==
    LET j == IF i < 0 THEN i + Len(l) ELSE i
        k == IF j < 0 THEN 0 ELSE IF j > Len(l) THEN Len(l) ELSE j
    IN  SubSeq(l, 1, k) \o <<x>> \o SubSeq(l, k + 1, Len(l))

\* list.remove(x): drops the first occurrence of x
ListRemove(l, x) ==
    LET k == CHOOSE i \in 1..Len(l) : l[i] = x /\ \A j \in 1..(i - 1) : l[j] # x
    IN  SubSeq(l, 1, k - 1) \o SubSeq(l, k + 1, Len(l))

\* zip(x, y): pairs up to the shorter length
Zip(x, y) ==
    LET m == IF Len(x) < Len(y) THEN Len(x) ELSE Len(y)
    IN  [i \in 1..m |-> <<x[i], y[i]>>]

\* tuple comparison of 2-tuples
PairLess(p, q) == p[1] < q[1] \/ (p[1] = q[1] /\ p[2] < q[2])

RECURSIVE InsertSorted(_, _)
InsertSorted(l, p) ==
    IF l = <<>> THEN <<p>>
    ELSE IF PairLess(p, Head(l)) THEN <<p>> \o l
    ELSE <<Head(l)>> \o InsertSorted(Tail(l), p)

\* sorted(pairs)
RECURSIVE Sorted(_)
Sorted(l) == IF l = <<>> THEN <<>> ELSE InsertSorted(Sorted(Tail(l)), Head(l))

(* --------------------------- array handles ---------------------------- *)

RECURSIVE Product(_)
Product(s) == IF s = <<>> THEN 1 ELSE Head(s) * Product(Tail(s))

\* a freshly constructed C-contiguous array over its own storage
CArray(shape, st) ==
    [ndim    |-> Len(shape),
     shape   |-> shape,
     strides |-> [i \in 1..Len(shape) |-> Product(SubSeq(shape, i + 1, Len(shape)))],
     storage |-> st]

NoHandle == [ndim |-> 0 - 1, shape |-> <<>>, strides |-> <<>>, storage |-> 0]

IsPermutation(order, n) ==
    /\ Len(order) = n
    /\ \A k \in 0..(n - 1) : Cardinality({i \in 1..Len(order) : order[i] = k}) = 1

\* ndarray.view(): new handle, same metadata, same storage; self untouched
view(a) == [err |-> "none", self |-> a, res |-> a]

\* ndarray.transpose(axes): new handle with shape and strides permuted,
\* same storage; rejects an axes list that is not a permutation
transpose(a, axes) ==
    IF ~IsPermutation(axes, a.ndim)
    THEN [err |-> "ValueError", self |-> a, res |-> NoHandle]
    ELSE [err |-> "none", self |-> a,
          res |-> [ndim    |-> a.ndim,
                   shape   |-> [i \in 1..a.ndim |-> At(a.shape, axes[i])],
                   strides |-> [i \in 1..a.ndim |-> At(a.strides, axes[i])],
                   storage |-> a.storage]]

\* multiarray.array(a, dtype, copy=False, order): an array handle is passed
\* through, anything else is converted into new storage
micarray(x, nst) ==
    IF x.kind = "array"
    THEN [res |-> x.h, alloc |-> 0]
    ELSE [res |-> CArray(x.h.shape, nst + 1), alloc |-> 1]

asarray(x, nst) == micarray(x, nst)

(* ------------------------- axis normalization ------------------------- *)

normalize_axis_index(axis, n) ==
    IF (0 - n) <= axis /\ axis < n
    THEN [err |-> "none", val |-> IF axis < 0 THEN axis + n ELSE axis]
    ELSE [err |-> "AxisError", val |-> axis]

\* an int is wrapped in a 1-tuple, every entry is normalized, and a
\* repeated entry is rejected
normalize_axis_tuple(axis, ndim, argname) ==
    LET t == IF axis.kind = "int" THEN <<axis.int>> ELSE axis.seq
        r == [i \in 1..Len(t) |-> normalize_axis_index(t[i], ndim)]
        v == [i \in 1..Len(t) |-> r[i].val]
    IN  IF \E i \in 1..Len(t) : r[i].err # "none"
        THEN [err |-> "AxisError", val |-> <<>>, arg |-> argname]
        ELSE IF Cardinality(Range(v)) # Len(v)
        THEN [err |-> "ValueError", val |-> <<>>, arg |-> argname]
        ELSE [err |-> "none", val |-> v, arg |-> argname]

(* ------------------------------ rollaxis ------------------------------ *)

NoMsg == [param |-> "", lo |-> 0, hi |-> 0, passed |-> 0]

\* what a call hands back to the caller: the exception (or "none"), who
\* raised it, the view()/transpose() calls it made, the input handle as the
\* call left it, the returned handle, and the array asarray built (if any)
Outcome(err, raiser, msg, calls, self, res, tmp, alloc) ==
    [err |-> err, raiser |-> raiser, msg |-> msg, calls |-> calls,
     self |-> self, res |-> res, tmp |-> tmp, alloc |-> alloc]

\* if start < 0: start += n
StartAdjusted(start, n) == IF start < 0 THEN start + n ELSE start

StartInBound_strict(start, n) == 0 <= start /\ start < n

\* 0 <= start < n + 1
StartInBound(start, n) == 0 <= start /\ start < n + 1

\* msg % ('start', -n, 'start', n + 1, start)
StartMsg(n, start) == [param |-> "start", lo |-> 0 - n, hi |-> n + 1, passed |-> start]

StartAfterRemoval_keep(axis, start) == start

\* if axis < start: start -= 1   ("it's been removed")
StartAfterRemoval(axis, start) == IF axis < start THEN start - 1 ELSE start

RollAxes_noremove(n, axis, start) == ListInsert(PyRange(n), start, axis)

\* axes = list(range(0, n)); axes.remove(axis); axes.insert(start, axis)
RollAxes(n, axis, start) == ListInsert(ListRemove(PyRange(n), axis), start, axis)

ViewCall(a) == [fn |-> "view", on |-> a, axes |-> <<>>]
TransposeCall(a, axes) == [fn |-> "transpose", on |-> a, axes |-> axes]

RollResult_always(a, n, axis, start) ==
    LET axes == RollAxes(n, axis, start)
        t    == transpose(a, axes)
    IN  Outcome(t.err, IF t.err = "none" THEN "" ELSE "transpose", NoMsg,
                <<TransposeCall(a, axes)>>, t.self, t.res, NoHandle, 0)

RollResult_self(a, n, axis, start) ==
    IF axis = start
    THEN Outcome("none", "", NoMsg, <<>>, a, a, NoHandle, 0)
    ELSE RollResult_always(a, n, axis, start)

\* if axis == start: return a.view(); else return a.transpose(axes)
RollResult(a, n, axis, start) ==
    IF axis = start
    THEN LET v == view(a)
         IN  Outcome(v.err, "", NoMsg, <<ViewCall(a)>>, v.self, v.res, NoHandle, 0)
    ELSE LET axes == RollAxes(n, axis, start)
             t    == transpose(a, axes)
         IN  Outcome(t.err, IF t.err = "none" THEN "" ELSE "transpose", NoMsg,
                     <<TransposeCall(a, axes)>>, t.self, t.res, NoHandle, 0)

Raise(err, raiser, msg, self, tmp, alloc) ==
    Outcome(err, raiser, msg, <<>>, self, NoHandle, tmp, alloc)

rollaxis_eager(x, axis, start) ==
    IF x.kind # "array"
    THEN Raise("AttributeError", "rollaxis", NoMsg, x.h, NoHandle, 0)
    ELSE
    LET a  == x.h
        n  == a.ndim
        ax == normalize_axis_index(axis, n)
        s1 == StartAdjusted(start, n)
        s2 == StartAfterRemoval(ax.val, s1)
        r  == RollResult(a, n, IF ax.err = "none" THEN ax.val ELSE 0, s2)
    IN  IF ax.err # "none"
        THEN Raise("AxisError", "normalize_axis_index", NoMsg, a, NoHandle, 0)
        ELSE IF ~StartInBound(s1, n)
        THEN [Raise("AxisError", "rollaxis", StartMsg(n, s1), a, NoHandle, 0)
                EXCEPT !.calls = r.calls]
        ELSE r

rollaxis(x, axis, start) ==
    IF x.kind # "array"
    THEN \* a.ndim on an object that is no array
         Raise("AttributeError", "rollaxis", NoMsg, x.h, NoHandle, 0)
    ELSE
    LET a  == x.h
        n  == a.ndim
        ax == normalize_axis_index(axis, n)
        s1 == StartAdjusted(start, n)
    IN  IF ax.err # "none"
        THEN Raise("AxisError", "normalize_axis_index", NoMsg, a, NoHandle, 0)
        ELSE IF ~StartInBound(s1, n)
        THEN Raise("AxisError", "rollaxis", StartMsg(n, s1), a, NoHandle, 0)
        ELSE RollResult(a, n, ax.val, StartAfterRemoval(ax.val, s1))

(* ------------------------------ moveaxis ------------------------------ *)

RECURSIVE InsertAll(_, _)
\* for dest, src in pairs: order.insert(dest, src)
InsertAll(order, pairs) ==
    IF pairs = <<>> THEN order
    ELSE InsertAll(ListInsert(order, Head(pairs)[1], Head(pairs)[2]), Tail(pairs))

\* [n for n in range(ndim) if n not in source]
Remaining(ndim, source) == SelectSeq(PyRange(ndim), LAMBDA n : n \notin Range(source))

Reverse(l) == [i \in 1..Len(l) |-> l[Len(l) + 1 - i]]

MoveOrder_unsorted(ndim, source, destination) ==
    InsertAll(Remaining(ndim, source), Zip(destination, source))

MoveOrder_descending(ndim, source, destination) ==
    InsertAll(Remaining(ndim, source), Reverse(Sorted(Zip(destination, source))))

\* order = [...]; for dest, src in sorted(zip(destination, source)): ...
MoveOrder(ndim, source, destination) ==
    InsertAll(Remaining(ndim, source), Sorted(Zip(destination, source)))

LengthsDiffer_shorter(source, destination) == Len(source) < Len(destination)

\* len(source) != len(destination)
LengthsDiffer(source, destination) == Len(source) # Len(destination)

moveaxis(x, source, destination, nst) ==
    LET \* try: transpose = a.transpose / except AttributeError: a = asarray(a)
        conv  == IF x.kind = "array" THEN [res |-> x.h, alloc |-> 0] ELSE asarray(x, nst)
        a     == conv.res
        tmp   == IF x.kind = "array" THEN NoHandle ELSE a
        src   == normalize_axis_tuple(source, a.ndim, "source")
        dst   == normalize_axis_tuple(destination, a.ndim, "destination")
    IN  IF src.err # "none"
        THEN Raise(src.err, "normalize_axis_tuple", NoMsg, x.h, tmp, conv.alloc)
        ELSE IF dst.err # "none"
        THEN Raise(dst.err, "normalize_axis_tuple", NoMsg, x.h, tmp, conv.alloc)
        ELSE IF LengthsDiffer(src.val, dst.val)
        THEN Raise("ValueError", "moveaxis", NoMsg, x.h, tmp, conv.alloc)
        ELSE LET order == MoveOrder(a.ndim, src.val, dst.val)
                 t     == transpose(a, order)
             IN  Outcome(t.err, IF t.err = "none" THEN "" ELSE "transpose", NoMsg,
                         <<TransposeCall(a, order)>>,
                         IF x.kind = "array" THEN t.self ELSE x.h,
                         t.res, IF x.kind = "array" THEN NoHandle ELSE t.self,
                         conv.alloc)

(* --------------------------- the caller's run -------------------------- *)

NoAxes == [kind |-> "none"]

NoOutcome == Outcome("none", "", NoMsg, <<>>, NoHandle, NoHandle, NoHandle, 0)

NoInput == [kind |-> "none", id |-> 0, h |-> NoHandle]

NoCall ==
    [op |-> "none", x |-> NoInput, axis |-> 0, start |-> 0,
     source |-> NoAxes, destination |-> NoAxes, out |-> NoOutcome]

\* a nested list of the given shape: it has neither ndim nor transpose
ListValue(shape) == [ndim |-> 0 - 1, shape |-> shape, strides |-> <<>>, storage |-> 0]

ArrayInput(id) == [kind |-> "array", id |-> id, h |-> heap[id]]

ListInput(shape) == [kind |-> "list", id |-> 0, h |-> ListValue(shape)]

\* number of dimensions of the caller's data
Dims == Len(data.h.shape)

\* axis arguments: every valid axis and one value beyond each end
AxisArgs(n) == (0 - (n + 1))..n

\* start arguments: every valid start and two values beyond each end
StartArgs(n) == (0 - (n + 2))..(n + 2)

SeqsUpTo(S, m) == UNION {[1..k -> S] : k \in 0..m}

\* source / destination arguments: an int, or a sequence of ints
AxesArgs(n) ==
    {[kind |-> "int", int |-> i] : i \in (0 - n)..n}
        \cup {[kind |-> "seq", seq |-> q] : q \in SeqsUpTo((0 - n)..n, MaxLen)}

\* the handles a call leaves behind: the input as the call left it, the
\* array asarray built, and the handle returned
HeapAfter(x, out) ==
    (IF x.kind = "array" THEN [heap EXCEPT ![x.id] = out.self] ELSE heap)
        \o (IF out.tmp = NoHandle THEN <<>> ELSE <<out.tmp>>)
        \o (IF out.err = "none" THEN <<out.res>> ELSE <<>>)

\* the caller holds its data as an array, or as a nested list
Init ==
    /\ \E n \in 0..MaxNdim :
         \/ /\ heap = <<CArray(SubSeq(DocShape, 1, n), 1)>>
            /\ nstorage = 1
            /\ data = [kind |-> "array", id |-> 1, h |-> CArray(SubSeq(DocShape, 1, n), 1)]
         \/ /\ heap = <<>>
            /\ nstorage = 0
            /\ data = ListInput(SubSeq(DocShape, 1, n))
    /\ last = NoCall
    /\ back = NoCall

Rollaxis ==
    /\ last.op = "none"
    /\ \E x \in {data}, axis \in AxisArgs(Dims), start \in StartArgs(Dims) :
         \E out \in {rollaxis(x, axis, start)} :
             /\ last' = [NoCall EXCEPT !.op = "rollaxis", !.x = x, !.axis = axis,
                                       !.start = start, !.out = out]
             /\ heap' = HeapAfter(x, out)
             /\ nstorage' = nstorage + out.alloc
    /\ UNCHANGED <<data, back>>

Moveaxis ==
    /\ last.op = "none"
    /\ \E x \in {data}, source \in AxesArgs(Dims), destination \in AxesArgs(Dims) :
         \E out \in {moveaxis(x, source, destination, nstorage)} :
             /\ last' = [NoCall EXCEPT !.op = "moveaxis", !.x = x, !.source = source,
                                       !.destination = destination, !.out = out]
             /\ heap' = HeapAfter(x, out)
             /\ nstorage' = nstorage + out.alloc
    /\ UNCHANGED <<data, back>>

\* the caller moves the axes of the array it got back to where they were:
\* moveaxis(moveaxis(a, s, d), d, s)
MoveaxisBack ==
    /\ last.op = "moveaxis"
    /\ last.out.err = "none"
    /\ back.op = "none"
    /\ \E x \in {ArrayInput(Len(heap))} :
       \E out \in {moveaxis(x, last.destination, last.source, nstorage)} :
           /\ back' = [NoCall EXCEPT !.op = "moveaxis", !.x = x,
                                     !.source = last.destination,
                                     !.destination = last.source, !.out = out]
           /\ heap' = HeapAfter(x, out)
           /\ nstorage' = nstorage + out.alloc
    /\ UNCHANGED <<data, last>>

Next == Rollaxis \/ Moveaxis \/ MoveaxisBack

Spec == Init /\ [][Next]_vars

(* ------------------------------ properties ---------------------------- *)

\* a property of every call the caller has made so far
Made(c) == c.op # "none"
IsRoll(c) == c.op = "rollaxis"
IsMove(c) == c.op = "moveaxis"

\* the axis a caller's index names: a negative index counts from the end
Named(i, n) == IF i < 0 THEN i + n ELSE i

InRange(i, n) == (0 - n) <= i /\ i < n

\* the caller's source / destination as a sequence
Given(arg) == IF arg.kind = "int" THEN <<arg.int>> ELSE arg.seq

NamedAll(arg, n) == [i \in 1..Len(Given(arg)) |-> Named(Given(arg)[i], n)]

\* all entries in range and no axis named twice
Normalizes(arg, n) ==
    /\ \A i \in 1..Len(Given(arg)) : InRange(Given(arg)[i], n)
    /\ \A i, j \in 1..Len(Given(arg)) :
         i # j => Named(Given(arg)[i], n) # Named(Given(arg)[j], n)

\* the array a call works on: the caller's array, or the one asarray built
Worked(c) == IF c.x.kind = "array" THEN c.x.h ELSE c.out.tmp

Ascending(q) == \A i, j \in 1..Len(q) : i < j => q[i] < q[j]

\* position (0-based) of axis k in the order p
Pos(p, k) == (CHOOSE i \in 1..Len(p) : p[i] = k) - 1

\* the axis order of the handle a successful call returned
OrderOf(c) ==
    IF c.out.calls[1].fn = "view" THEN PyRange(Worked(c).ndim) ELSE c.out.calls[1].axes

Succeeded(c) == c.out.err = "none"

C1_In(c) ==
    Made(c) => \A i \in 1..Len(c.out.calls) :
        c.out.calls[i].fn = "transpose" =>
            /\ Len(c.out.calls[i].axes) = c.out.calls[i].on.ndim
            /\ Range(c.out.calls[i].axes) = 0..(c.out.calls[i].on.ndim - 1)

\* C1: every axis order rollaxis or moveaxis passes to transpose has length
\* ndim and contains each of 0..ndim-1 exactly once
C1_Bijection == C1_In(last) /\ C1_In(back)

C1_Witness ==
    /\ last.op = "rollaxis" /\ Succeeded(last) /\ last.x.h.ndim = 3
    /\ last.out.calls[1].fn = "transpose"
    /\ last.out.calls[1].axes = <<0, 2, 1>>

\* a rollaxis call on an array of ndim >= 1 with the axis in [-ndim, ndim)
RollValidAxis(c) ==
    /\ c.x.kind = "array"
    /\ c.x.h.ndim >= 1
    /\ InRange(c.axis, c.x.h.ndim)

C2_In(c) ==
    IsRoll(c) =>
        LET n  == c.x.h.ndim
            ax == Named(c.axis, n)
            st == Named(c.start, n)
            p  == OrderOf(c)
        IN  (RollValidAxis(c) /\ (0 - n) <= c.start /\ c.start <= n) =>
                /\ Succeeded(c)
                /\ Len(p) = n /\ Range(p) = 0..(n - 1)
                /\ Ascending(SelectSeq(p, LAMBDA k : k # ax))
                /\ IF st = n THEN Pos(p, ax) = n - 1
                   ELSE IF st = ax THEN p = PyRange(n)
                   ELSE Pos(p, ax) + 1 = Pos(p, st)
                /\ c.out.res.ndim = n
                /\ \A i \in 1..n : c.out.res.shape[i] = At(c.x.h.shape, p[i])
                /\ (st = 0 => c.out.res.shape[1] = At(c.x.h.shape, ax))

\* C2: for axis in [-ndim, ndim) and start in [-ndim, ndim], rollaxis yields
\* the order in which the named axis lies immediately before the axis that
\* had index start (last when start = ndim, unmoved when start names the axis
\* itself), the other axes keep their relative order, and the result's
\* shape[i] is the input's shape[order[i]]
C2_RollOrder == C2_In(last) /\ C2_In(back)

C2_Witness ==
    /\ last.op = "rollaxis" /\ Succeeded(last) /\ last.x.h.ndim = 3
    /\ last.axis = 0 /\ last.start = 2
    /\ last.out.res.shape = <<4, 3, 5>>

\* a moveaxis call whose source and destination normalize and match in length
MoveValid(c) ==
    /\ Normalizes(c.source, Worked(c).ndim)
    /\ Normalizes(c.destination, Worked(c).ndim)
    /\ Len(Given(c.source)) = Len(Given(c.destination))

C3_In(c) ==
    IsMove(c) =>
        LET n == Worked(c).ndim
            s == NamedAll(c.source, n)
            d == NamedAll(c.destination, n)
        IN  MoveValid(c) =>
                /\ Len(c.out.calls) = 1
                /\ c.out.calls[1].fn = "transpose"
                /\ Len(c.out.calls[1].axes) = n
                /\ \A i \in 1..Len(s) : At(c.out.calls[1].axes, d[i]) = s[i]
                /\ Ascending(SelectSeq(c.out.calls[1].axes, LAMBDA k : k \notin Range(s)))

\* C3: for equal-length, duplicate-free, in-range source and destination the
\* order p passed to transpose has p[destination[i]] = source[i] for every i,
\* and the axes not named in source fill the other positions in ascending
\* order
C3_MoveOrder == C3_In(last) /\ C3_In(back)

C3_Witness ==
    /\ last.op = "moveaxis" /\ Succeeded(last) /\ last.x.h.ndim = 3
    /\ last.source = [kind |-> "seq", seq |-> <<0, 1>>]
    /\ last.destination = [kind |-> "seq", seq |-> <<0 - 1, 0 - 2>>]
    /\ last.out.calls[1].axes = <<2, 1, 0>>

\* C4: moveaxis(moveaxis(a, s, d), d, s) has the shape of a: the second
\* order undoes the first
C4_RoundTrip ==
    back.op = "moveaxis" =>
        /\ Succeeded(back)
        /\ back.out.res.shape = last.x.h.shape
        /\ \A i \in 1..Len(back.out.calls[1].axes) :
             At(last.out.calls[1].axes, back.out.calls[1].axes[i]) = i - 1

C4_Witness ==
    /\ back.op = "moveaxis" /\ Succeeded(back)
    /\ last.source = [kind |-> "seq", seq |-> <<0, 1>>]
    /\ last.destination = [kind |-> "seq", seq |-> <<2, 0>>]
    /\ last.out.res.shape = <<4, 5, 3>>
    /\ back.out.res.shape = <<3, 4, 5>>

C5_In(c) ==
    IsRoll(c) =>
        LET n == c.x.h.ndim
            inside == (0 - n) <= c.start /\ c.start <= n
        IN  RollValidAxis(c) =>
                /\ (c.out.err = "AxisError" /\ c.out.raiser = "rollaxis") <=> ~inside
                /\ inside => Succeeded(c)

\* C5: for ndim >= 1 and axis in [-ndim, ndim), rollaxis raises its own
\* AxisError exactly when start is outside [-ndim, ndim], and succeeds for
\* every start inside
C5_StartRange == C5_In(last) /\ C5_In(back)

C5_Witness ==
    /\ last.op = "rollaxis" /\ RollValidAxis(last) /\ last.x.h.ndim = 3
    /\ last.start = 3 /\ Succeeded(last)

C6_In(c) ==
    IsMove(c) =>
        LET own == c.out.err = "ValueError" /\ c.out.raiser = "moveaxis"
        IN  (Normalizes(c.source, Worked(c).ndim)
                /\ Normalizes(c.destination, Worked(c).ndim)) =>
                IF Len(Given(c.source)) # Len(Given(c.destination))
                THEN own /\ c.out.calls = <<>>
                ELSE ~own

\* C6: when source and destination both normalize but differ in length,
\* moveaxis raises its ValueError and calls no transpose; when the lengths
\* are equal it never raises that error
C6_LengthMismatch == C6_In(last) /\ C6_In(back)

C6_Witness ==
    /\ last.op = "moveaxis" /\ last.x.h.ndim = 3
    /\ last.source = [kind |-> "seq", seq |-> <<0, 1>>]
    /\ last.destination = [kind |-> "seq", seq |-> <<0>>]
    /\ last.out.err = "ValueError" /\ last.out.raiser = "moveaxis"

\* the returned handle comes from exactly one view() or transpose() call on
\* the array h, shares h's storage, and the call allocated `alloc` buffers
ViewOf(c, h, alloc) ==
    /\ Len(c.out.calls) = 1
    /\ c.out.calls[1].fn \in {"view", "transpose"}
    /\ c.out.calls[1].on = h
    /\ c.out.res.storage = h.storage
    /\ c.out.alloc = alloc

C7_AlwaysIn(c) ==
    (Made(c) /\ Succeeded(c)) => ViewOf(c, c.x.h, 0)

\* C7 as stated: every successful call returns a view of its input made by
\* one view() or transpose() call on the input, and allocates no storage
C7_AlwaysView == C7_AlwaysIn(last) /\ C7_AlwaysIn(back)

C7_In(c) ==
    (Made(c) /\ Succeeded(c)) =>
        IF c.x.kind = "array"
        THEN ViewOf(c, c.x.h, 0)
        ELSE /\ c.op = "moveaxis"
             /\ ViewOf(c, c.out.tmp, 1)
             /\ c.out.calls[1].fn = "transpose"
             /\ c.out.tmp # NoHandle

\* C7 amended: that holds when the input is an array; a successful moveaxis
\* on an input without transpose returns a transpose of the array asarray
\* built for it, in that array's newly allocated storage
C7_ViewOfArray == C7_In(last) /\ C7_In(back)

C7_Witness ==
    /\ last.op = "rollaxis" /\ Succeeded(last) /\ last.x.h.ndim = 3
    /\ last.axis = 1 /\ last.start = 2
    /\ last.out.calls[1].fn = "view"
    /\ Len(heap) = 2 /\ heap[2].storage = heap[1].storage /\ nstorage = 1

C8_In(c) ==
    Made(c) =>
        /\ c.out.self = c.x.h
        /\ c.x.kind = "array" => heap[c.x.id] = c.x.h
        /\ ~Succeeded(c) => c.out.calls = <<>>

\* C8: a call leaves the input handle's ndim, shape, strides and storage as
\* they were, and a failing call has made no view() or transpose() call
C8_Frame == C8_In(last) /\ C8_In(back)

C8_Witness ==
    /\ last.op = "rollaxis" /\ last.x.kind = "array" /\ last.x.h.ndim = 3
    /\ last.axis = 0 /\ last.start = 5
    /\ last.out.err = "AxisError" /\ last.out.raiser = "rollaxis"
    /\ heap = <<last.x.h>>

C9_In(c) ==
    IsRoll(c) =>
        LET n  == c.x.h.ndim
            ax == Named(c.axis, n)
            s1 == Named(c.start, n)
            s2 == IF ax < s1 THEN s1 - 1 ELSE s1
        IN  (RollValidAxis(c) /\ 0 <= s1 /\ s1 <= n /\ s2 = ax) =>
                /\ Succeeded(c)
                /\ c.out.calls = <<ViewCall(c.x.h)>>
                /\ c.out.res.shape = c.x.h.shape

\* C9: when start, after the negative adjustment and the removal decrement,
\* equals the normalized axis, rollaxis returns a.view(), calls no transpose,
\* and the result has the input's shape
C9_IdentityView == C9_In(last) /\ C9_In(back)

C9_Witness ==
    /\ last.op = "rollaxis" /\ Succeeded(last) /\ last.x.h.ndim = 3
    /\ last.axis = 0 - 2 /\ last.start = 2
    /\ last.out.calls[1].fn = "view"
    /\ last.out.res.shape = <<3, 4, 5>>

C10_In(c) ==
    (IsRoll(c) /\ c.out.err = "AxisError" /\ c.out.raiser = "rollaxis") =>
            /\ c.out.msg.param = "start"
            /\ c.out.msg.lo = 0 - c.x.h.ndim
            /\ c.out.msg.hi = c.x.h.ndim + 1
            /\ c.out.msg.passed = c.start

\* C10: when rollaxis rejects start, its message names 'start', gives the
\* bound -ndim <= start < ndim+1, and reports the start the caller passed
C10_MessageReportsPassedStart == C10_In(last) /\ C10_In(back)

====
